---- MODULE Spec2Model ----
(***************************************************************************)
(* Arithmetic expression pipeline of rust-expr-evaluator:                  *)
(*   lexer.rs  (Lexer: cursor + line/column, next_token)                   *)
(*   parser.rs (Parser: one token of lookahead, recursive descent)         *)
(*   ast.rs    (Expr tree, eval, check_result)                             *)
(*   error.rs  (Location, LexerError, ParseError, EvalError)               *)
(*   main.rs   (driver: Parser::new, parse, eval)                          *)
(*                                                                         *)
(* Text is a sequence of one-character strings.  An f64 is modelled by a   *)
(* small binary fixed-point format: a finite value is an integer k that    *)
(* stands for k/2, |k| <= F64_MAX; results are rounded to nearest (ties to *)
(* even) and a result beyond F64_MAX becomes an infinity, as in IEEE-754.  *)
(* The negative zero is not represented.                                   *)
(***************************************************************************)
EXTENDS Integers, Sequences, FiniteSets, TLC

VARIABLES
    input,       \* the source text handed to Lexer::new / Parser::new
    lexer,       \* a Lexer driven directly by its caller (lexer.rs tests)
    before,      \* that lexer before the last next_token call
    ret,         \* what the last next_token call returned
    calls,       \* number of next_token calls made on `lexer`
    pc,          \* position of the driver (main.rs): start/parse/eval/done
    parser,      \* the Parser built by Parser::new
    outcome,     \* Result of Parser::new / Parser::parse
    expr,        \* an Expr tree built with the Expr constructors
    evalResult   \* Result of Expr::eval

vars == <<input, lexer, before, ret, calls, pc, parser, outcome,
          expr, evalResult>>

(***************************************************************************)
(* Bounds of the model.                                                    *)
(***************************************************************************)
\* longest text given to a lexer that is driven directly
MaxLexLen == 3
\* longest text over the whole alphabet given to the parser
MaxParseLen == 4
\* longest text of digits, operators and parentheses given to the parser
MaxExprLen == 6
\* next_token calls made on one directly driven lexer
MaxCalls == 5
\* largest finite magnitude of the model's f64 (in halves)
F64_MAX == 24
\* constructor calls that build one tree on top of its operands
MaxOps == 2
\* frames the call stack holds before the process is aborted
StackLimit == 64

(***************************************************************************)
(* f64                                                                     *)
(***************************************************************************)
NaN == [cls |-> "nan", k |-> 0]
PosInf == [cls |-> "inf", k |-> 0]
NegInf == [cls |-> "ninf", k |-> 0]

\* the f64 nearest to k/2
Fin(k) ==
    IF k > F64_MAX THEN PosInf
    ELSE IF k < -F64_MAX THEN NegInf
    ELSE [cls |-> "fin", k |-> k]

Zero == Fin(0)
One == Fin(2)

Abs(n) == IF n < 0 THEN -n ELSE n

\* n/d rounded to the nearest integer, ties to even (d # 0)
RoundDiv(n, d) ==
    LET an == Abs(n)
        ad == Abs(d)
        q == an \div ad
        r == an % ad
        m == IF 2 * r > ad \/ (2 * r = ad /\ q % 2 = 1) THEN q + 1 ELSE q
    IN IF (n < 0) = (d < 0) THEN m ELSE -m

\* f64::is_infinite
is_infinite(x) == x.cls \in {"inf", "ninf"}

\* f64::is_sign_positive (NaN is given the positive sign)
is_sign_positive(x) ==
    \/ x.cls \in {"inf", "nan"}
    \/ x.cls = "fin" /\ x.k >= 0

\* x == 0.0
IsZero(x) == x.cls = "fin" /\ x.k = 0

\* unary minus
NegF(x) ==
    CASE x.cls = "nan" -> NaN
      [] x.cls = "inf" -> NegInf
      [] x.cls = "ninf" -> PosInf
      [] OTHER -> Fin(-x.k)

\* a + b
AddF(x, y) ==
    CASE x.cls = "nan" \/ y.cls = "nan" -> NaN
      [] is_infinite(x) /\ is_infinite(y) -> IF x = y THEN x ELSE NaN
      [] is_infinite(x) -> x
      [] is_infinite(y) -> y
      [] OTHER -> Fin(x.k + y.k)

\* a - b
SubF(x, y) == AddF(x, NegF(y))

\* the infinity of the sign of a product or quotient of x and y
SignedInf(x, y) ==
    IF is_sign_positive(x) = is_sign_positive(y) THEN PosInf ELSE NegInf

\* a * b
MulF(x, y) ==
    CASE x.cls = "nan" \/ y.cls = "nan" -> NaN
      [] is_infinite(x) \/ is_infinite(y) ->
            IF IsZero(x) \/ IsZero(y) THEN NaN ELSE SignedInf(x, y)
      [] OTHER -> Fin(RoundDiv(x.k * y.k, 2))

\* a / b
DivF(x, y) ==
    CASE x.cls = "nan" \/ y.cls = "nan" -> NaN
      [] is_infinite(x) -> IF is_infinite(y) THEN NaN ELSE SignedInf(x, y)
      [] is_infinite(y) -> Zero
      [] IsZero(y) -> IF IsZero(x) THEN NaN ELSE SignedInf(x, y)
      [] OTHER -> Fin(RoundDiv(2 * x.k, y.k))

\* x multiplied n times by itself (n >= 1), rounded at every step
RECURSIVE IterMul(_, _)
IterMul(x, n) == IF n <= 1 THEN x ELSE MulF(x, IterMul(x, n - 1))

\* square root of a finite x >= 0, rounded down to a representable value
SqrtF(x) ==
    Fin(CHOOSE r \in 0..(F64_MAX + 1) : r * r <= 2 * x.k /\ (r + 1) * (r + 1) > 2 * x.k)

\* |x| compared with 1: -1 (smaller), 0 (equal), 1 (larger); x not NaN
MagVsOne(x) ==
    IF is_infinite(x) THEN 1
    ELSE IF Abs(x.k) > 2 THEN 1 ELSE IF Abs(x.k) = 2 THEN 0 ELSE -1

\* f64::powf
PowF(x, y) ==
    CASE IsZero(y) -> One
      [] x = One -> One
      [] x.cls = "nan" \/ y.cls = "nan" -> NaN
      [] y.cls = "inf" ->
            IF MagVsOne(x) = 1 THEN PosInf ELSE IF MagVsOne(x) = 0 THEN One ELSE Zero
      [] y.cls = "ninf" ->
            IF MagVsOne(x) = 1 THEN Zero ELSE IF MagVsOne(x) = 0 THEN One ELSE PosInf
      [] x.cls = "inf" -> IF y.k > 0 THEN PosInf ELSE Zero
      [] x.cls = "ninf" ->
            IF y.k < 0 THEN Zero
            ELSE IF y.k % 4 = 2 THEN NegInf ELSE PosInf
      [] y.k % 2 = 0 ->
            IF y.k > 0 THEN IterMul(x, y.k \div 2)
            ELSE IF IsZero(x) THEN PosInf
            ELSE DivF(One, IterMul(x, (-y.k) \div 2))
      [] OTHER ->
            IF x.k < 0 THEN NaN
            ELSE IF IsZero(x) THEN (IF y.k > 0 THEN Zero ELSE PosInf)
            ELSE IF y.k > 0 THEN IterMul(SqrtF(x), y.k)
            ELSE DivF(One, IterMul(SqrtF(x), -y.k))

(***************************************************************************)
(* error.rs, token.rs                                                      *)
(***************************************************************************)
\* Location::new
Location(line, column) == [line |-> line, column |-> column]

\* Token: kind, and the value a Number carries
Token(kind) == [kind |-> kind, val |-> Zero]
Number(v) == [kind |-> "Number", val |-> v]
Eof == Token("Eof")
\* placeholder in the token slot of a result that carries no token
NoToken == Token("none")

\* a message: its fixed text and the values formatted into it
Message(text, ch, exp, got) == [text |-> text, ch |-> ch, exp |-> exp, got |-> got]
NoMessage == Message("", "", "", NoToken)

\* LexerError::new
LexerError(message, location) == [message |-> message, location |-> location]

\* ParseError::new
ParseError(message, location) == [message |-> message, location |-> location]

\* ParseError::from_lexer_error (impl From<LexerError> for ParseError)
from_lexer_error(err) == [message |-> err.message, location |-> err.location]

NoError == [message |-> NoMessage, location |-> Location(0, 0)]

(***************************************************************************)
(* lexer.rs                                                                *)
(***************************************************************************)
Digits == {"0", "1", "2", "3", "4", "5", "6", "7", "8", "9"}
\* char::is_ascii_digit
is_ascii_digit(c) == c \in Digits
\* char::is_whitespace (the white space characters of the model's texts)
is_whitespace(c) == c \in {" ", "\t", "\n", "\r"}

DigitVal(c) ==
    CASE c = "0" -> 0 [] c = "1" -> 1 [] c = "2" -> 2 [] c = "3" -> 3
      [] c = "4" -> 4 [] c = "5" -> 5 [] c = "6" -> 6 [] c = "7" -> 7
      [] c = "8" -> 8 [] c = "9" -> 9

\* Lexer::new: `chars` is the text not yet consumed
LexerNew(text) == [chars |-> text, line |-> 1, column |-> 1]

\* Lexer::location
location(lx) == Location(lx.line, lx.column)

\* self.chars.peek(): "" stands for None
peek(lx) == IF lx.chars = <<>> THEN "" ELSE Head(lx.chars)

\* seeded fault: advance_char that treats a newline as any other character
advance_char_same_line(lx) ==
    IF lx.chars = <<>> THEN lx
    ELSE [chars |-> Tail(lx.chars), line |-> lx.line, column |-> lx.column + 1]

\* Lexer::advance_char
advance_char(lx) ==
    IF lx.chars = <<>> THEN lx
    ELSE IF Head(lx.chars) = "\n"
         THEN [chars |-> Tail(lx.chars), line |-> lx.line + 1, column |-> 1]
         ELSE [chars |-> Tail(lx.chars), line |-> lx.line, column |-> lx.column + 1]

\* Lexer::skip_whitespace
RECURSIVE skip_whitespace(_)
skip_whitespace(lx) ==
    IF lx.chars # <<>> /\ is_whitespace(Head(lx.chars))
    THEN skip_whitespace(advance_char(lx))
    ELSE lx

\* the digit loops of read_number: consume digits, appending them to num_str
RECURSIVE read_digits(_, _)
read_digits(lx, num_str) ==
    IF lx.chars # <<>> /\ is_ascii_digit(Head(lx.chars))
    THEN read_digits(advance_char(lx), Append(num_str, Head(lx.chars)))
    ELSE [lx |-> lx, num_str |-> num_str]

\* the integer a digit string denotes
RECURSIVE DigitsValue(_)
DigitsValue(ds) ==
    IF ds = <<>> THEN 0
    ELSE 10 * DigitsValue(SubSeq(ds, 1, Len(ds) - 1)) + DigitVal(ds[Len(ds)])

RECURSIVE Pow10(_)
Pow10(n) == IF n = 0 THEN 1 ELSE 10 * Pow10(n - 1)

\* str::parse::<f64> of digits [ "." digits ]: the nearest f64, which is an
\* infinity for a literal beyond the largest finite value.  It never fails
\* on such a string, so the "Invalid number" error of read_number is dead.
parse_f64(int_digits, frac_digits) ==
    LET i == DigitsValue(int_digits)
        n == DigitsValue(frac_digits)
        p == Pow10(Len(frac_digits))
        r == IF 4 * n <= p THEN 0 ELSE IF 4 * n < 3 * p THEN 1 ELSE 2
    IN Fin(2 * i + r)

\* Lexer::read_number
read_number(lx) ==
    LET start_location == location(lx)
        ip == read_digits(lx, <<>>)
    IN IF peek(ip.lx) = "."
       THEN LET fp == read_digits(advance_char(ip.lx), <<>>)
                has_decimal_digits == fp.num_str # <<>>
            IN IF ~has_decimal_digits
               THEN [lx |-> fp.lx, ok |-> FALSE, val |-> Zero,
                     err |-> LexerError(
                         Message("Expected digits after decimal point", "", "", NoToken),
                         start_location)]
               ELSE [lx |-> fp.lx, ok |-> TRUE,
                     val |-> parse_f64(ip.num_str, fp.num_str), err |-> NoError]
       ELSE [lx |-> ip.lx, ok |-> TRUE,
             val |-> parse_f64(ip.num_str, <<>>), err |-> NoError]

\* the token of a one-character symbol
SymbolKind(c) ==
    CASE c = "+" -> "Plus" [] c = "-" -> "Minus" [] c = "*" -> "Star"
      [] c = "/" -> "Slash" [] c = "(" -> "LeftParen" [] c = ")" -> "RightParen"

\* Ok((token, location)) / Err(error) of next_token, with the lexer after it
TokenOk(lx, tok, loc) ==
    [lx |-> lx, ok |-> TRUE, tok |-> tok, loc |-> loc, err |-> NoError]
TokenErr(lx, err) ==
    [lx |-> lx, ok |-> FALSE, tok |-> NoToken, loc |-> err.location, err |-> err]

\* the match of next_token, at the first character after the white space
next_token_match(lx, loc) ==
    LET c == peek(lx) IN
    CASE c = "" -> TokenOk(lx, Eof, loc)
      [] is_ascii_digit(c) ->
            LET n == read_number(lx)
            IN IF n.ok THEN TokenOk(n.lx, Number(n.val), loc) ELSE TokenErr(n.lx, n.err)
      [] c \in {"+", "-", "*", "/", "(", ")"} ->
            TokenOk(advance_char(lx), Token(SymbolKind(c)), loc)
      [] OTHER ->
            TokenErr(lx, LexerError(Message("Unexpected character", c, "", NoToken), loc))

\* seeded fault: next_token that counts a column when it meets the end
next_token_eof_moves(lx) ==
    LET skipped == skip_whitespace(lx)
        r == next_token_match(skipped, location(skipped))
    IN IF r.ok /\ r.tok = Eof THEN [r EXCEPT !.lx.column = @ + 1] ELSE r

\* seeded fault: next_token that consumes the character it rejects
next_token_consumes_rejected(lx) ==
    LET skipped == skip_whitespace(lx)
        r == next_token_match(skipped, location(skipped))
    IN IF ~r.ok /\ r.err.message.text = "Unexpected character"
       THEN [r EXCEPT !.lx = advance_char(r.lx)]
       ELSE r

\* Lexer::next_token
next_token(lx) ==
    LET skipped == skip_whitespace(lx)
    IN next_token_match(skipped, location(skipped))

(***************************************************************************)
(* ast.rs: the tree and its constructors                                   *)
(***************************************************************************)
\* Expr::number, add, sub, mul, div, neg, pow
Expr_number(n) == [op |-> "Number", val |-> n]
Expr_add(a, b) == [op |-> "Add", a |-> a, b |-> b]
Expr_sub(a, b) == [op |-> "Sub", a |-> a, b |-> b]
Expr_mul(a, b) == [op |-> "Mul", a |-> a, b |-> b]
Expr_div(a, b) == [op |-> "Div", a |-> a, b |-> b]
Expr_neg(a) == [op |-> "Neg", a |-> a]
Expr_pow(a, b) == [op |-> "Pow", a |-> a, b |-> b]
\* placeholder in the tree slot of a result that carries no tree
NoExpr == [op |-> "none"]

(***************************************************************************)
(* parser.rs                                                               *)
(*                                                                         *)
(* A parser value holds the fields of the struct (lexer, current,          *)
(* current_location) and three observation fields the code does not keep:  *)
(* token_location (the location next_token returned with `current`, which  *)
(* the code drops), advances (calls of advance so far) and depth (deepest  *)
(* nesting of expression/term/unary/primary calls so far).  A function     *)
(* entered with more than StackLimit frames below it ends the process:     *)
(* its result is "Abort".                                                  *)
(***************************************************************************)
ParseOk(p, e) == [p |-> p, st |-> "Ok", expr |-> e, err |-> NoError]
ParseErr(p, err) == [p |-> p, st |-> "Err", expr |-> NoExpr, err |-> err]
ParseAbort(p) == [p |-> p, st |-> "Abort", expr |-> NoExpr, err |-> NoError]

\* entering a function at nesting depth d
Enter(p, d) == [p EXCEPT !.depth = IF d > @ THEN d ELSE @]

\* the value of v, computed once, handed to the rest K of the function body
\* (a `let x = v;` of the code whose x is used more than once)
Bind(v, K(_)) == CHOOSE r \in {K(x) : x \in {v}} : TRUE

\* Parser::new
ParserNew(text) ==
    Bind(next_token(LexerNew(text)), LAMBDA r :
        IF r.ok
        THEN ParseOk([lexer |-> r.lx, current |-> r.tok,
                      current_location |-> location(LexerNew(text)),
                      token_location |-> r.loc, advances |-> 0, depth |-> 0], NoExpr)
        ELSE ParseErr([lexer |-> r.lx, current |-> NoToken,
                       current_location |-> location(LexerNew(text)),
                       token_location |-> location(LexerNew(text)),
                       advances |-> 0, depth |-> 0], r.err))

\* Parser::advance
advance(p) ==
    Bind(next_token(p.lexer), LAMBDA r :
        IF r.ok
        THEN ParseOk([p EXCEPT !.lexer = r.lx, !.current = r.tok,
                               !.current_location = location(p.lexer),
                               !.token_location = r.loc,
                               !.advances = @ + 1], NoExpr)
        ELSE ParseErr([p EXCEPT !.lexer = r.lx,
                                !.current_location = location(p.lexer),
                                !.advances = @ + 1], from_lexer_error(r.err)))

\* Parser::check: the discriminants are equal
check(p, expected) == p.current.kind = expected.kind

\* Parser::expect_and_advance
expect_and_advance(p, expected) ==
    IF check(p, expected)
    THEN advance(p)
    ELSE ParseErr(p, ParseError(Message("Expected, got", "", expected.kind, p.current),
                                p.current_location))

RECURSIVE expression(_, _), expression_loop(_, _, _), term(_, _), term_loop(_, _, _)
RECURSIVE unary(_, _), primary(_, _)

\* Parser::expression
expression(p, d) ==
    IF d > StackLimit THEN ParseAbort(p)
    ELSE Bind(term(Enter(p, d), d + 1), LAMBDA left :
             IF left.st # "Ok" THEN left ELSE expression_loop(left.p, left.expr, d))

\* seeded fault: an additive loop that parses the whole rest as its right operand
expression_loop_right_assoc(p, left, d) ==
    IF p.current.kind \in {"Plus", "Minus"}
    THEN Bind(advance(p), LAMBDA adv :
            IF adv.st # "Ok" THEN adv
            ELSE Bind(expression(adv.p, d + 1), LAMBDA right :
                    IF right.st # "Ok" THEN right
                    ELSE IF p.current.kind = "Plus"
                         THEN ParseOk(right.p, Expr_add(left, right.expr))
                         ELSE ParseOk(right.p, Expr_sub(left, right.expr))))
    ELSE ParseOk(p, left)

\* the loop of Parser::expression
expression_loop(p, left, d) ==
    IF p.current.kind \in {"Plus", "Minus"}
    THEN Bind(advance(p), LAMBDA adv :
            IF adv.st # "Ok" THEN adv
            ELSE Bind(term(adv.p, d + 1), LAMBDA right :
                    IF right.st # "Ok" THEN right
                    ELSE IF p.current.kind = "Plus"
                         THEN expression_loop(right.p, Expr_add(left, right.expr), d)
                         ELSE expression_loop(right.p, Expr_sub(left, right.expr), d)))
    ELSE ParseOk(p, left)

\* Parser::term
term(p, d) ==
    IF d > StackLimit THEN ParseAbort(p)
    ELSE Bind(unary(Enter(p, d), d + 1), LAMBDA first :
             IF first.st # "Ok" THEN first ELSE term_loop(first.p, first.expr, d))

\* the loop of Parser::term
term_loop(p, left, d) ==
    IF p.current.kind \in {"Star", "Slash"}
    THEN Bind(advance(p), LAMBDA adv :
            IF adv.st # "Ok" THEN adv
            ELSE Bind(unary(adv.p, d + 1), LAMBDA right :
                    IF right.st # "Ok" THEN right
                    ELSE IF p.current.kind = "Star"
                         THEN term_loop(right.p, Expr_mul(left, right.expr), d)
                         ELSE term_loop(right.p, Expr_div(left, right.expr), d)))
    ELSE ParseOk(p, left)

\* seeded fault: unary that does not consume the minus sign
unary_without_advance(p, d) ==
    IF d > StackLimit THEN ParseAbort(p)
    ELSE IF p.current = Token("Minus")
    THEN Bind(unary(Enter(p, d), d + 1), LAMBDA e :
            IF e.st # "Ok" THEN e ELSE ParseOk(e.p, Expr_neg(e.expr)))
    ELSE primary(Enter(p, d), d + 1)

\* Parser::unary
unary(p, d) ==
    IF d > StackLimit THEN ParseAbort(p)
    ELSE IF p.current = Token("Minus")
    THEN Bind(advance(Enter(p, d)), LAMBDA adv :
            IF adv.st # "Ok" THEN adv
            ELSE Bind(unary(adv.p, d + 1), LAMBDA e :
                    IF e.st # "Ok" THEN e ELSE ParseOk(e.p, Expr_neg(e.expr))))
    ELSE primary(Enter(p, d), d + 1)

\* Parser::primary
primary(p, d) ==
    IF d > StackLimit THEN ParseAbort(p)
    ELSE CASE p.current.kind = "Number" ->
                Bind(advance(Enter(p, d)), LAMBDA adv :
                    IF adv.st # "Ok" THEN adv
                    ELSE ParseOk(adv.p, Expr_number(p.current.val)))
           [] p.current.kind = "LeftParen" ->
                Bind(advance(Enter(p, d)), LAMBDA adv :
                    IF adv.st # "Ok" THEN adv
                    ELSE Bind(expression(adv.p, d + 1), LAMBDA e :
                            IF e.st # "Ok" THEN e
                            ELSE Bind(expect_and_advance(e.p, Token("RightParen")),
                                      LAMBDA close :
                                        IF close.st # "Ok" THEN close
                                        ELSE ParseOk(close.p, e.expr))))
           [] OTHER ->
                ParseErr(Enter(p, d),
                         ParseError(Message("Expected expression, got", "", "", p.current),
                                    p.current_location))

\* seeded fault: parse that does not look at the token after the expression
parse_without_eof_check(p) == expression(p, 1)

\* Parser::parse
parse(p) ==
    Bind(expression(p, 1), LAMBDA e :
        IF e.st # "Ok" THEN e
        ELSE IF e.p.current # Eof
             THEN ParseErr(e.p, ParseError(
                      Message("Expected end of input, got", "", "", e.p.current),
                      e.p.current_location))
             ELSE e)

(***************************************************************************)
(* ast.rs: eval                                                            *)
(*                                                                         *)
(* A result holds Ok(val) or Err(err), and `trace`: one event for every    *)
(* eval call that returned, in the order of their return (the node's       *)
(* variant and "Ok" or the error it returned).  A sub-expression that was  *)
(* not evaluated leaves no event.                                          *)
(***************************************************************************)
Event(op, out) == [op |-> op, out |-> out]
EvalOk(v) == [ok |-> TRUE, val |-> v, err |-> ""]
EvalErr(e) == [ok |-> FALSE, val |-> Zero, err |-> e]

\* seeded fault: check_result that tests for +infinity only
check_result_overflow_only(result) ==
    IF result = PosInf THEN EvalErr("Overflow") ELSE EvalOk(result)

\* Expr::check_result
check_result(result) ==
    IF is_infinite(result)
    THEN IF is_sign_positive(result) THEN EvalErr("Overflow") ELSE EvalErr("Underflow")
    ELSE EvalOk(result)

\* the node `op` returns r, after the evaluations recorded in trace
Return(op, r, trace) ==
    [ok |-> r.ok, val |-> r.val, err |-> r.err,
     trace |-> Append(trace, Event(op, IF r.ok THEN "Ok" ELSE r.err))]

RECURSIVE eval(_)

\* seeded fault: Add that evaluates its right operand first
eval_Add_right_first(a, b) ==
    LET rb == eval(b) IN
    IF ~rb.ok THEN Return("Add", rb, rb.trace)
    ELSE LET ra == eval(a) IN
         IF ~ra.ok THEN Return("Add", ra, rb.trace \o ra.trace)
         ELSE Return("Add", check_result(AddF(ra.val, rb.val)), rb.trace \o ra.trace)

\* Expr::eval, Add arm
eval_Add(a, b) ==
    LET ra == eval(a) IN
    IF ~ra.ok THEN Return("Add", ra, ra.trace)
    ELSE LET rb == eval(b) IN
         IF ~rb.ok THEN Return("Add", rb, ra.trace \o rb.trace)
         ELSE Return("Add", check_result(AddF(ra.val, rb.val)), ra.trace \o rb.trace)

\* Expr::eval, Sub arm
eval_Sub(a, b) ==
    LET ra == eval(a) IN
    IF ~ra.ok THEN Return("Sub", ra, ra.trace)
    ELSE LET rb == eval(b) IN
         IF ~rb.ok THEN Return("Sub", rb, ra.trace \o rb.trace)
         ELSE Return("Sub", check_result(SubF(ra.val, rb.val)), ra.trace \o rb.trace)

\* Expr::eval, Mul arm
eval_Mul(a, b) ==
    LET ra == eval(a) IN
    IF ~ra.ok THEN Return("Mul", ra, ra.trace)
    ELSE LET rb == eval(b) IN
         IF ~rb.ok THEN Return("Mul", rb, ra.trace \o rb.trace)
         ELSE Return("Mul", check_result(MulF(ra.val, rb.val)), ra.trace \o rb.trace)

\* seeded fault: Div that evaluates the dividend before the divisor
eval_Div_dividend_first(a, b) ==
    LET ra == eval(a) IN
    IF ~ra.ok THEN Return("Div", ra, ra.trace)
    ELSE LET divisor == eval(b) IN
         IF ~divisor.ok THEN Return("Div", divisor, ra.trace \o divisor.trace)
         ELSE IF IsZero(divisor.val)
         THEN Return("Div", EvalErr("DivisionByZero"), ra.trace \o divisor.trace)
         ELSE Return("Div", check_result(DivF(ra.val, divisor.val)),
                     ra.trace \o divisor.trace)

\* Expr::eval, Div arm
eval_Div(a, b) ==
    LET divisor == eval(b) IN
    IF ~divisor.ok THEN Return("Div", divisor, divisor.trace)
    ELSE IF IsZero(divisor.val)
    THEN Return("Div", EvalErr("DivisionByZero"), divisor.trace)
    ELSE LET ra == eval(a) IN
         IF ~ra.ok THEN Return("Div", ra, divisor.trace \o ra.trace)
         ELSE Return("Div", check_result(DivF(ra.val, divisor.val)),
                     divisor.trace \o ra.trace)

\* Expr::eval, Neg arm
eval_Neg(a) ==
    LET ra == eval(a) IN
    IF ~ra.ok THEN Return("Neg", ra, ra.trace)
    ELSE Return("Neg", check_result(NegF(ra.val)), ra.trace)

\* Expr::eval, Pow arm
eval_Pow(a, b) ==
    LET ra == eval(a) IN
    IF ~ra.ok THEN Return("Pow", ra, ra.trace)
    ELSE LET rb == eval(b) IN
         IF ~rb.ok THEN Return("Pow", rb, ra.trace \o rb.trace)
         ELSE Return("Pow", check_result(PowF(ra.val, rb.val)), ra.trace \o rb.trace)

\* Expr::eval
eval(e) ==
    CASE e.op = "Number" -> Return("Number", EvalOk(e.val), <<>>)
      [] e.op = "Add" -> eval_Add(e.a, e.b)
      [] e.op = "Sub" -> eval_Sub(e.a, e.b)
      [] e.op = "Mul" -> eval_Mul(e.a, e.b)
      [] e.op = "Div" -> eval_Div(e.a, e.b)
      [] e.op = "Neg" -> eval_Neg(e.a)
      [] e.op = "Pow" -> eval_Pow(e.a, e.b)

NotEvaluated == [ok |-> FALSE, val |-> Zero, err |-> "not evaluated", trace |-> <<>>]

(***************************************************************************)
(* The state machine                                                       *)
(***************************************************************************)
\* all texts over `alphabet` of at most n characters
Texts(alphabet, n) == UNION {[1..m -> alphabet] : m \in 0..n}

Alphabet == {"1", ".", "+", "-", "*", "/", "(", ")", " ", "\n", "@"}
LexAlphabet == Alphabet \cup {"5"}
ExprAlphabet == {"1", "-", "/", "(", ")"}
LexTexts == Texts(LexAlphabet, MaxLexLen)
ParseTexts == Texts(Alphabet, MaxParseLen) \cup Texts(ExprAlphabet, MaxExprLen)

NoReturn == [ok |-> FALSE, tok |-> NoToken, loc |-> Location(0, 0), err |-> NoError]
NoLexer == LexerNew(<<>>)
NoParser ==
    [lexer |-> NoLexer, current |-> NoToken, current_location |-> Location(0, 0),
     token_location |-> Location(0, 0), advances |-> 0, depth |-> 0]
NoOutcome == [p |-> NoParser, st |-> "none", expr |-> NoExpr, err |-> NoError]

lexerVars == <<lexer, before, ret, calls>>
driverVars == <<pc, parser, outcome>>
treeVars == <<expr>>

LexerIdle == lexer = NoLexer /\ before = NoLexer /\ ret = NoReturn /\ calls = 0
DriverIdle == pc = "idle" /\ parser = NoParser /\ outcome = NoOutcome
TreeIdle == expr = NoExpr

(* --- main.rs: Parser::new, then parse, then eval ----------------------- *)
Init ==
    /\ input \in ParseTexts
    /\ pc = "new" /\ parser = NoParser /\ outcome = NoOutcome
    /\ evalResult = NotEvaluated
    /\ LexerIdle /\ TreeIdle

\* match Parser::new(input)
New ==
    /\ pc = "new"
    /\ LET r == ParserNew(input)
       IN /\ outcome' = r
          /\ parser' = IF r.st = "Ok" THEN r.p ELSE NoParser
          /\ pc' = IF r.st = "Ok" THEN "parse" ELSE "done"
    /\ UNCHANGED <<input, evalResult, lexerVars, treeVars>>

\* match parser.parse()
Parse ==
    /\ pc = "parse"
    /\ LET r == parse(parser)
       IN /\ outcome' = r
          /\ parser' = r.p
          /\ pc' = IF r.st = "Ok" THEN "eval" ELSE "done"
    /\ UNCHANGED <<input, evalResult, lexerVars, treeVars>>

\* match expr.eval()
Eval ==
    /\ pc = "eval"
    /\ evalResult' = eval(outcome.expr)
    /\ pc' = "done"
    /\ UNCHANGED <<input, parser, outcome, lexerVars, treeVars>>

Next == New \/ Parse \/ Eval

Spec == Init /\ [][Next]_vars

(* --- a lexer driven token by token (the tests of lexer.rs) ------------- *)
InitLexer ==
    /\ input \in LexTexts
    /\ lexer = LexerNew(input) /\ before = LexerNew(input)
    /\ ret = NoReturn /\ calls = 0
    /\ evalResult = NotEvaluated
    /\ DriverIdle /\ TreeIdle

\* lexer.next_token()
NextTokenCall ==
    /\ calls < MaxCalls
    /\ LET r == next_token(lexer)
       IN /\ lexer' = r.lx
          /\ ret' = [ok |-> r.ok, tok |-> r.tok, loc |-> r.loc, err |-> r.err]
    /\ before' = lexer
    /\ calls' = calls + 1
    /\ UNCHANGED <<input, evalResult, driverVars, treeVars>>

NextLexer == NextTokenCall

SpecLexer == InitLexer /\ [][NextLexer]_vars

(* --- trees built with the constructors, then evaluated ----------------- *)
F64_MAX_VALUE == Fin(F64_MAX)
LeafValues == {Zero, One, F64_MAX_VALUE, PosInf}
Operands ==
    {Expr_number(v) : v \in LeafValues} \cup {Expr_div(Expr_number(One), Expr_number(Zero))}
BinaryOps == {"Add", "Sub", "Mul", "Div", "Pow"}

\* the constructor of a binary variant
Binary(op, a, b) ==
    CASE op = "Add" -> Expr_add(a, b)
      [] op = "Sub" -> Expr_sub(a, b)
      [] op = "Mul" -> Expr_mul(a, b)
      [] op = "Div" -> Expr_div(a, b)
      [] op = "Pow" -> Expr_pow(a, b)

\* constructor calls that built e on top of its operands
RECURSIVE Ops(_)
Ops(e) ==
    IF e \in Operands THEN 0
    ELSE IF e.op = "Neg" THEN 1 + Ops(e.a)
    ELSE 1 + Ops(e.a) + Ops(e.b)

InitTree ==
    /\ input = <<>>
    /\ expr \in Operands
    /\ evalResult = NotEvaluated
    /\ LexerIdle /\ DriverIdle

\* Expr::neg(expr)
MkNeg ==
    /\ evalResult = NotEvaluated
    /\ Ops(expr) < MaxOps
    /\ expr' = Expr_neg(expr)
    /\ UNCHANGED <<input, evalResult, lexerVars, driverVars>>

\* Expr::add/sub/mul/div/pow(expr, t)
MkLeft ==
    /\ evalResult = NotEvaluated
    /\ Ops(expr) < MaxOps
    /\ \E op \in BinaryOps, t \in Operands : expr' = Binary(op, expr, t)
    /\ UNCHANGED <<input, evalResult, lexerVars, driverVars>>

\* Expr::add/sub/mul/div/pow(t, expr)
MkRight ==
    /\ evalResult = NotEvaluated
    /\ Ops(expr) < MaxOps
    /\ \E op \in BinaryOps, t \in Operands : expr' = Binary(op, t, expr)
    /\ UNCHANGED <<input, evalResult, lexerVars, driverVars>>

\* expr.eval()
EvalCall ==
    /\ evalResult = NotEvaluated
    /\ evalResult' = eval(expr)
    /\ UNCHANGED <<input, expr, lexerVars, driverVars>>

NextTree == MkNeg \/ MkLeft \/ MkRight \/ EvalCall

SpecTree == InitTree /\ [][NextTree]_vars

(***************************************************************************)
(* Properties: the driver (Spec)                                           *)
(***************************************************************************)
\* Parser::new succeeded and parse has returned
Parsed == pc \in {"eval", "done"} /\ parser # NoParser

\* Parser::new followed by parse, as in main.rs
ParseText(text) ==
    LET n == ParserNew(text) IN IF n.st = "Ok" THEN parse(n.p) ELSE n

\* the messages of the errors the parser raises itself
SyntacticTexts == {"Expected, got", "Expected expression, got", "Expected end of input, got"}

\* C1: parse returns Ok only with the lookahead at Eof and the whole text
\* consumed; and whenever one full expression has been parsed and the
\* lookahead is another token, parse returns the error "Expected end of
\* input, got <that token>", never an Ok tree.
C1_NoTrailingInput ==
    Parsed =>
        LET e == expression(ParserNew(input).p, 1) IN
        /\ outcome.st = "Ok" =>
              /\ parser.current = Eof
              /\ parser.lexer.chars = <<>>
              /\ e.st = "Ok" /\ outcome.expr = e.expr
        /\ (e.st = "Ok" /\ e.p.current # Eof) =>
              /\ outcome.st = "Err"
              /\ outcome.expr = NoExpr
              /\ outcome.err.message =
                     Message("Expected end of input, got", "", "", e.p.current)

\* a full expression followed by a number is rejected
C1_Witness ==
    /\ Parsed
    /\ outcome.st = "Err"
    /\ outcome.err.message.text = "Expected end of input, got"
    /\ outcome.err.message.got.kind = "Number"
    /\ expression(ParserNew(input).p, 1).st = "Ok"

\* the tokens next_token returns up to Eof (<<>> when the lexer fails)
RECURSIVE TokensFrom(_)
TokensFrom(lx) ==
    LET r == next_token(lx)
    IN IF ~r.ok \/ r.tok = Eof THEN <<>> ELSE <<r.tok>> \o TokensFrom(r.lx)

\* parentheses open before position i
RECURSIVE Nesting(_, _)
Nesting(toks, i) ==
    IF i <= 1 THEN 0
    ELSE Nesting(toks, i - 1)
         + (IF toks[i - 1].kind = "LeftParen" THEN 1
            ELSE IF toks[i - 1].kind = "RightParen" THEN -1 ELSE 0)

\* a binary operator of `kinds` outside all parentheses: it follows an operand
BinaryAt(toks, i, kinds) ==
    /\ toks[i].kind \in kinds
    /\ i > 1
    /\ toks[i - 1].kind \in {"Number", "RightParen"}
    /\ Nesting(toks, i) = 0

SetMax(S) == CHOOSE x \in S : \A y \in S : y <= x

RefNode(kind, l, r) ==
    [op |-> CASE kind = "Plus" -> "Add" [] kind = "Minus" -> "Sub"
              [] kind = "Star" -> "Mul" [] kind = "Slash" -> "Div",
     a |-> l, b |-> r]

\* the tree of standard arithmetic for a well-formed token sequence: split at
\* the last additive operator outside parentheses, else at the last
\* multiplicative one, else strip a leading minus, else strip the parentheses
RECURSIVE RefTree(_)
RefTree(toks) ==
    LET n == Len(toks)
        adds == {i \in 1..n : BinaryAt(toks, i, {"Plus", "Minus"})}
        muls == {i \in 1..n : BinaryAt(toks, i, {"Star", "Slash"})}
        Split(i) == RefNode(toks[i].kind, RefTree(SubSeq(toks, 1, i - 1)),
                            RefTree(SubSeq(toks, i + 1, n)))
    IN IF adds # {} THEN Split(SetMax(adds))
       ELSE IF muls # {} THEN Split(SetMax(muls))
       ELSE IF toks[1].kind = "Minus" THEN [op |-> "Neg", a |-> RefTree(Tail(toks))]
       ELSE IF toks[1].kind = "LeftParen" THEN RefTree(SubSeq(toks, 2, n - 1))
       ELSE [op |-> "Number", val |-> toks[1].val]

Num(k) == [op |-> "Number", val |-> Fin(2 * k)]

\* the trees of test_parser's inputs
C2_Examples ==
    /\ ParseText(<<"1", "0", " ", "-", " ", "2", " ", "-", " ", "3">>).expr
         = [op |-> "Sub", a |-> [op |-> "Sub", a |-> Num(10), b |-> Num(2)], b |-> Num(3)]
    /\ ParseText(<<"-", "-", "5">>).expr = [op |-> "Neg", a |-> [op |-> "Neg", a |-> Num(5)]]
    /\ ParseText(<<"2", " ", "+", " ", "3", " ", "*", " ", "4">>).expr
         = [op |-> "Add", a |-> Num(2), b |-> [op |-> "Mul", a |-> Num(3), b |-> Num(4)]]
    /\ ParseText(<<"(", "2", " ", "+", " ", "3", ")", " ", "*", " ", "4">>).expr
         = [op |-> "Mul", a |-> [op |-> "Add", a |-> Num(2), b |-> Num(3)], b |-> Num(4)]
    /\ ParseText(<<"2", " ", "*", " ", "-", "3">>).expr
         = [op |-> "Mul", a |-> Num(2), b |-> [op |-> "Neg", a |-> Num(3)]]
    /\ ParseText(<<"-", "2", " ", "*", " ", "3">>).expr
         = [op |-> "Mul", a |-> [op |-> "Neg", a |-> Num(2)], b |-> Num(3)]

\* C2: the tree of an accepted text is the tree of standard arithmetic:
\* '*' '/' bind tighter than '+' '-', unary '-' tighter than '*' '/', equal
\* levels associate to the left, n leading '-' give n nested Neg, and a
\* parenthesized sub-expression is one operand.
C2_StandardTree ==
    /\ C2_Examples
    /\ (Parsed /\ outcome.st = "Ok") =>
           outcome.expr = RefTree(TokensFrom(LexerNew(input)))

\* "a - b - -c" was parsed: a left-nested subtraction of a negation
C2_Witness ==
    /\ Parsed
    /\ outcome.st = "Ok"
    /\ outcome.expr.op = "Sub"
    /\ outcome.expr.a.op = "Sub"
    /\ outcome.expr.b.op = "Neg"

\* C3: a syntactic ParseError carries the location of the unexpected token,
\* the location the lexer returned with that token.
C3_ErrorAtToken ==
    (Parsed /\ outcome.st = "Err" /\ outcome.err.message.text \in SyntacticTexts) =>
        outcome.err.location = outcome.p.token_location

\* steps the driver has left at most
DriverRank ==
    CASE pc = "new" -> 3 [] pc = "parse" -> 2 [] pc = "eval" -> 1 [] OTHER -> 0

C9_Outcome ==
    /\ pc \in {"new", "parse", "eval", "done"}
    /\ pc # "new" =>
          /\ outcome.st \in {"Ok", "Err"}
          /\ outcome.st = "Ok" => outcome.err = NoError
          /\ outcome.st = "Err" => (outcome.expr = NoExpr /\ outcome.err # NoError)
          /\ (Parsed /\ outcome.st = "Ok") => outcome.expr # NoExpr
          /\ parser = NoParser => (outcome.st = "Err" /\ pc = "done")
    /\ Parsed =>
          /\ parser.advances <= Len(input) - Len(parser.lexer.chars)
          /\ parser.depth <= 4 * (parser.advances + 1)
          /\ parser.depth <= StackLimit

RECURSIVE Newlines(_)
Newlines(text) ==
    IF text = <<>> THEN 0
    ELSE (IF Head(text) = "\n" THEN 1 ELSE 0) + Newlines(Tail(text))

\* characters of text after its last newline
RECURSIVE SinceNewline(_)
SinceNewline(text) ==
    IF text = <<>> \/ text[Len(text)] = "\n" THEN 0
    ELSE 1 + SinceNewline(SubSeq(text, 1, Len(text) - 1))

\* line and column of the character that follows the prefix `text`
LocationAfter(text) == Location(1 + Newlines(text), 1 + SinceNewline(text))

\* the part of the input a lexer has consumed
Consumed(lx) == SubSeq(input, 1, Len(input) - Len(lx.chars))

\* the prefix of text up to the first character at or after position i that
\* is not white space
RECURSIVE UpToToken(_, _)
UpToToken(text, i) ==
    IF i <= Len(text) /\ is_whitespace(text[i]) THEN UpToToken(text, i + 1)
    ELSE SubSeq(text, 1, i - 1)

\* what the n-th next_token call on a fresh lexer over text returns
RECURSIVE NthToken(_, _)
NthToken(lx, n) ==
    LET r == next_token(lx) IN IF n <= 1 THEN r ELSE NthToken(r.lx, n - 1)

\* test_lexer_error and test_lexer_multiline
C4_Examples ==
    /\ LET r == NthToken(LexerNew(<<"2", " ", "+", " ", "@">>), 3)
       IN ~r.ok /\ r.err.location = Location(1, 5)
    /\ LET r == NthToken(LexerNew(<<"1", " ", "+", "\n", "2">>), 3)
       IN r.ok /\ r.tok = Number(Fin(4)) /\ r.loc.line = 2

\* C4: line is 1 + the newlines consumed, column is 1 + the characters
\* consumed since the last newline, both are >= 1, and every token or error
\* returned carries the line and column of the first character after the
\* white space that preceded it.
C4_LineColumn ==
    /\ C4_Examples
    /\ lexer.chars = SubSeq(input, Len(input) - Len(lexer.chars) + 1, Len(input))
    /\ lexer.line = 1 + Newlines(Consumed(lexer))
    /\ lexer.column = 1 + SinceNewline(Consumed(lexer))
    /\ lexer.line >= 1 /\ lexer.column >= 1
    /\ calls > 0 =>
          /\ ret.loc = LocationAfter(UpToToken(input, Len(Consumed(before)) + 1))
          /\ ~ret.ok => ret.err.location = ret.loc
          /\ ret.loc.line >= 1 /\ ret.loc.column >= 1

\* a number was returned at line 2, column 2, after a newline and a space
C4_Witness ==
    /\ calls > 0
    /\ ret.ok /\ ret.tok.kind = "Number"
    /\ ret.loc = Location(2, 2)
    /\ lexer.line = 2 /\ lexer.column > 2

ReturnedEof == calls > 0 /\ ret.ok /\ ret.tok = Eof

\* C7: once next_token has returned Eof, the next call returns Ok(Eof) with
\* the same location and leaves the cursor, line and column unchanged.
C7_EofRepeats == [][ReturnedEof => (ret' = ret /\ lexer' = lexer)]_vars

\* Eof was returned at least twice: each earlier token took a character
C7_Witness ==
    /\ ReturnedEof
    /\ Len(input) >= 2
    /\ calls >= Len(input) + 2

ReturnedUnexpected ==
    calls > 0 /\ ~ret.ok /\ ret.err.message.text = "Unexpected character"

C10_State ==
    /\ ReturnedUnexpected =>
          /\ lexer = skip_whitespace(before)
          /\ lexer.chars # <<>>
          /\ Head(lexer.chars) = ret.err.message.ch
          /\ location(lexer) = ret.err.location
    /\ (calls > 0 /\ ret.ok /\ ret.tok # Eof) => Len(lexer.chars) < Len(before.chars)

\* C10: an "Unexpected character" error consumes only the white space before
\* the character: the lexer stays at it, every later call returns the same
\* error at the same location (so Eof is never returned), while a token
\* other than Eof consumes at least one character.
C10_ErrorNotConsumed ==
    []C10_State /\ [][ReturnedUnexpected => (ret' = ret /\ lexer' = lexer)]_vars

\* the error was returned at least twice, after white space or a token
C10_Witness ==
    /\ ReturnedUnexpected
    /\ calls > Len(input)
    /\ lexer.column > 1
    /\ before = lexer

(***************************************************************************)
(* Properties: the evaluator (SpecTree)                                    *)
(***************************************************************************)
Evaluated == evalResult # NotEvaluated

\* the result a node returns: Ok or Err, without the trace
Outcome(r) == [ok |-> r.ok, val |-> r.val, err |-> r.err]

\* C5: Div evaluates the divisor first; its error is returned; a zero
\* divisor gives DivisionByZero without the dividend being evaluated, even
\* when the dividend would fail; otherwise the dividend is evaluated, divided
\* and checked.
C5_DivisorFirst ==
    (Evaluated /\ expr.op = "Div") =>
        LET rb == eval(expr.b)
            ra == eval(expr.a)
        IN /\ ~rb.ok =>
                /\ Outcome(evalResult) = EvalErr(rb.err)
                /\ evalResult.trace = Append(rb.trace, Event("Div", rb.err))
           /\ (rb.ok /\ rb.val = Zero) =>
                /\ Outcome(evalResult) = EvalErr("DivisionByZero")
                /\ evalResult.trace = Append(rb.trace, Event("Div", "DivisionByZero"))
           /\ (rb.ok /\ rb.val # Zero) =>
                /\ SubSeq(evalResult.trace, 1, Len(rb.trace) + Len(ra.trace))
                       = rb.trace \o ra.trace
                /\ Len(evalResult.trace) = Len(rb.trace) + Len(ra.trace) + 1
                /\ ~ra.ok => Outcome(evalResult) = EvalErr(ra.err)
                /\ ra.ok => Outcome(evalResult) = check_result(DivF(ra.val, rb.val))

\* a division by zero whose dividend would overflow
C5_Witness ==
    /\ Evaluated
    /\ expr.op = "Div"
    /\ eval(expr.b).ok /\ eval(expr.b).val = Zero
    /\ eval(expr.a).err = "Overflow"
    /\ evalResult.err = "DivisionByZero"

\* the value a composite node computes from its operands' values
Computed(op, x, y) ==
    CASE op = "Add" -> AddF(x, y)
      [] op = "Sub" -> SubF(x, y)
      [] op = "Mul" -> MulF(x, y)
      [] op = "Div" -> DivF(x, y)
      [] op = "Neg" -> NegF(x)
      [] op = "Pow" -> PowF(x, y)

\* C6: a composite node all of whose operands were evaluated and returned Ok
\* returns Overflow when the computed value is +infinity, Underflow when it
\* is -infinity and the value unchanged otherwise, so it never returns Ok of
\* an infinity; Number(v) returns v unchecked.
C6_Checked ==
    Evaluated =>
        IF expr.op = "Number"
        THEN Outcome(evalResult) = EvalOk(expr.val)
        ELSE LET ra == eval(expr.a)
                 rb == IF expr.op = "Neg" THEN ra ELSE eval(expr.b)
                 operandEvents ==
                     IF expr.op = "Neg" THEN Len(ra.trace)
                     ELSE Len(ra.trace) + Len(rb.trace)
                 v == Computed(expr.op, ra.val, rb.val)
             IN /\ evalResult.ok => ~is_infinite(evalResult.val)
                /\ (ra.ok /\ rb.ok /\ Len(evalResult.trace) = operandEvents + 1) =>
                      /\ v = PosInf => Outcome(evalResult) = EvalErr("Overflow")
                      /\ v = NegInf => Outcome(evalResult) = EvalErr("Underflow")
                      /\ v \notin {PosInf, NegInf} => Outcome(evalResult) = EvalOk(v)

\* the negation of the literal +infinity, which itself evaluates to Ok
C6_Witness ==
    /\ Evaluated
    /\ expr.op = "Neg"
    /\ expr.a = Expr_number(PosInf)
    /\ eval(expr.a).ok /\ eval(expr.a).val = PosInf
    /\ evalResult.err = "Underflow"

\* index of the first event of a trace that is an error (0: none)
FirstFailure(trace) ==
    IF \E i \in 1..Len(trace) : trace[i].out # "Ok"
    THEN CHOOSE i \in 1..Len(trace) :
            /\ trace[i].out # "Ok"
            /\ \A j \in 1..(i - 1) : trace[j].out = "Ok"
    ELSE 0

\* C8: Add, Sub, Mul and Pow evaluate the left operand, then the right one;
\* a failing left operand is returned without the right one being
\* evaluated, else a failing right operand is returned; the error of any
\* tree is that of the first sub-expression that failed, and nothing is
\* evaluated after it.
C8_LeftToRight ==
    Evaluated =>
        /\ expr.op \in {"Add", "Sub", "Mul", "Pow"} =>
              LET ra == eval(expr.a)
                  rb == eval(expr.b)
              IN /\ ~ra.ok =>
                      /\ Outcome(evalResult) = EvalErr(ra.err)
                      /\ evalResult.trace = Append(ra.trace, Event(expr.op, ra.err))
                 /\ (ra.ok /\ ~rb.ok) =>
                      /\ Outcome(evalResult) = EvalErr(rb.err)
                      /\ evalResult.trace
                             = Append(ra.trace \o rb.trace, Event(expr.op, rb.err))
                 /\ (ra.ok /\ rb.ok) =>
                      /\ SubSeq(evalResult.trace, 1, Len(ra.trace) + Len(rb.trace))
                             = ra.trace \o rb.trace
                      /\ Len(evalResult.trace) = Len(ra.trace) + Len(rb.trace) + 1
        /\ LET f == FirstFailure(evalResult.trace)
           IN IF evalResult.ok THEN f = 0
              ELSE /\ f > 0
                   /\ evalResult.err = evalResult.trace[f].out
                   /\ \A j \in f..Len(evalResult.trace) :
                          /\ evalResult.trace[j].out = evalResult.err
                          /\ j > f => evalResult.trace[j].op # "Number"

\* the left operand overflows and is returned; the right one would have
\* failed with a division by zero
C8_Witness ==
    /\ Evaluated
    /\ expr.op \in {"Add", "Sub", "Mul", "Pow"}
    /\ eval(expr.a).err = "Overflow"
    /\ eval(expr.b).err = "DivisionByZero"
    /\ evalResult.err = "Overflow"

====
